---- MODULE Spec2Model ----
(***************************************************************************)
(* A model of kube_downscaler/scaler.py: the reconciliation pass (scale),  *)
(* its two drivers (autoscale_resources, auto_suspend_cronjobs) and the    *)
(* two per-resource decision functions (autoscale_resource,                *)
(* auto_suspend_cronjob), over a cluster of resources, namespaces and pods *)
(* whose only persisted state is the resource objects themselves.          *)
(*                                                                         *)
(* Python values are tagged records (PyNone, PyStr, PyInt, PyBool) so that *)
(* truthiness, ==, int() and str() behave as in Python.  A Python string   *)
(* is a sequence of one-character strings.                                 *)
(***************************************************************************)
EXTENDS Integers, Sequences, FiniteSets, TLC

VARIABLES
    resources,   \* the cluster: resource name -> persisted resource object
    namespaces,  \* namespace name -> its annotations
    pods,        \* sequence of pods (phase, force-uptime annotation)
    args,        \* the arguments of scale(): process defaults, constant per run
    now,         \* wall clock, whole seconds
    pc,          \* "start" | "deployments" | "cronjobs" | "idle" | "aborted"
    todo,        \* resources the running driver loop has still to visit
    forced,      \* forced_uptime as computed by pods_force_uptime in scale()
    evaluated,   \* names of the resources the engine was invoked on in this pass
    last,        \* record of the most recent engine invocation (history)
    hist         \* per resource: what an engine scale-down recorded (history)

vars == <<resources, namespaces, pods, args, now, pc, todo, forced, evaluated, last, hist>>

(***************************************************************************)
(* Bounds of the model.                                                    *)
(***************************************************************************)
MaxNow == 4
MaxReplicas == 2

(***************************************************************************)
(* Python values.                                                          *)
(***************************************************************************)
PyNone == [t |-> "none", s |-> <<>>, n |-> 0]
PyStr(s) == [t |-> "str", s |-> s, n |-> 0]
PyInt(n) == [t |-> "int", s |-> <<>>, n |-> n]
PyBool(b) == [t |-> "bool", s |-> <<>>, n |-> IF b THEN 1 ELSE 0]

\* bool(x)
Truthy(x) ==
    CASE x.t = "none" -> FALSE
      [] x.t = "str" -> Len(x.s) > 0
      [] OTHER -> x.n # 0

\* x == y ; bool is a subclass of int, a str never equals a number
PyEq(x, y) ==
    CASE x.t = "none" \/ y.t = "none" -> x.t = y.t
      [] x.t = "str" \/ y.t = "str" -> x.t = y.t /\ x.s = y.s
      [] OTHER -> x.n = y.n

Digits == <<"0", "1", "2", "3", "4", "5", "6", "7", "8", "9">>
UpperCase == <<"A", "B", "C", "D", "E", "F", "G", "H", "I", "J", "K", "L", "M",
               "N", "O", "P", "Q", "R", "S", "T", "U", "V", "W", "X", "Y", "Z">>
LowerCase == <<"a", "b", "c", "d", "e", "f", "g", "h", "i", "j", "k", "l", "m",
               "n", "o", "p", "q", "r", "s", "t", "u", "v", "w", "x", "y", "z">>

IsDigit(c) == \E i \in 1..10 : Digits[i] = c
DigitVal(c) == (CHOOSE i \in 1..10 : Digits[i] = c) - 1

\* str.lower()
LowerChar(c) ==
    IF \E i \in 1..26 : UpperCase[i] = c
    THEN LowerCase[CHOOSE i \in 1..26 : UpperCase[i] = c]
    ELSE c
Lower(s) == [i \in 1..Len(s) |-> LowerChar(s[i])]

\* str.strip() of blanks, as int() applies it to its argument
RECURSIVE LStrip(_)
LStrip(s) == IF s # <<>> /\ Head(s) = " " THEN LStrip(Tail(s)) ELSE s
RECURSIVE RStrip(_)
RStrip(s) == IF s # <<>> /\ s[Len(s)] = " " THEN RStrip(SubSeq(s, 1, Len(s) - 1)) ELSE s
Strip(s) == RStrip(LStrip(s))

RECURSIVE NatOfDigits(_)
NatOfDigits(s) ==
    IF s = <<>> THEN 0
    ELSE 10 * NatOfDigits(SubSeq(s, 1, Len(s) - 1)) + DigitVal(s[Len(s)])

\* int(x): [ok |-> FALSE] stands for the ValueError / TypeError int() raises
IntOfStr(s) ==
    LET u == Strip(s)
        signed == u # <<>> /\ Head(u) \in {"+", "-"}
        d == IF signed THEN Tail(u) ELSE u
    IN  IF d # <<>> /\ \A i \in 1..Len(d) : IsDigit(d[i])
        THEN [ok |-> TRUE, n |-> IF signed /\ Head(u) = "-" THEN 0 - NatOfDigits(d) ELSE NatOfDigits(d)]
        ELSE [ok |-> FALSE, n |-> 0]

PyIntOf(x) ==
    CASE x.t = "str" -> IntOfStr(x.s)
      [] x.t = "none" -> [ok |-> FALSE, n |-> 0]
      [] OTHER -> [ok |-> TRUE, n |-> x.n]

\* str(n) for an int
RECURSIVE StrOfNat(_)
StrOfNat(n) ==
    IF n < 10 THEN <<Digits[n + 1]>>
    ELSE StrOfNat(n \div 10) \o <<Digits[(n % 10) + 1]>>
StrOfInt(n) == IF n < 0 THEN <<"-">> \o StrOfNat(0 - n) ELSE StrOfNat(n)

(***************************************************************************)
(* String constants of the program.                                        *)
(***************************************************************************)
ORIGINAL_REPLICAS_ANNOTATION == "downscaler/original-replicas"
ORIGINAL_CRON_SUSPEND_ANNOTATION == "downscaler/original-cron-status"
DOWNTIME_CRON_SUSPEND_ANNOTATION == "downscaler/downtime-cron-status"
FORCE_UPTIME_ANNOTATION == "downscaler/force-uptime"
UPSCALE_PERIOD_ANNOTATION == "downscaler/upscale-period"
DOWNSCALE_PERIOD_ANNOTATION == "downscaler/downscale-period"
EXCLUDE_ANNOTATION == "downscaler/exclude"
UPTIME_ANNOTATION == "downscaler/uptime"
DOWNTIME_ANNOTATION == "downscaler/downtime"
DOWNTIME_REPLICAS_ANNOTATION == "downscaler/downtime-replicas"
DOWNTIME_CRON_SUSPEND == PyBool(TRUE)
UPTIME_CRON_SUSPEND == PyBool(FALSE)

AnnotationKeys ==
    {ORIGINAL_REPLICAS_ANNOTATION, ORIGINAL_CRON_SUSPEND_ANNOTATION,
     DOWNTIME_CRON_SUSPEND_ANNOTATION, FORCE_UPTIME_ANNOTATION,
     UPSCALE_PERIOD_ANNOTATION, DOWNSCALE_PERIOD_ANNOTATION, EXCLUDE_ANNOTATION,
     UPTIME_ANNOTATION, DOWNTIME_ANNOTATION, DOWNTIME_REPLICAS_ANNOTATION}

S_never == <<"n", "e", "v", "e", "r">>
S_always == <<"a", "l", "w", "a", "y", "s">>
S_false == <<"f", "a", "l", "s", "e">>
S_true == <<"t", "r", "u", "e">>
S_forced == <<"f", "o", "r", "c", "e", "d">>
S_ignored == <<"i", "g", "n", "o", "r", "e", "d">>
\* two time-window specs of the window grammar, e.g. a morning and an afternoon range
S_AM == <<"A", "M">>
S_PM == <<"P", "M">>

\* annotations: key -> value, PyNone standing for an absent key
NoAnnotations == [k \in AnnotationKeys |-> PyNone]

\* dict.get(key, default)
Get(annotations, key, default) ==
    IF annotations[key] = PyNone THEN default ELSE annotations[key]

(***************************************************************************)
(* helper.matches_time_spec(now, spec): the time-window oracle.  The two   *)
(* sentinels are decided without looking at now; the windows AM and PM     *)
(* recur with the period of the clock and overlap in one second out of     *)
(* four: neither, AM only, both, PM only.                                  *)
(***************************************************************************)
matches_time_spec(t, spec) ==
    CASE spec = S_never -> FALSE
      [] spec = S_always -> TRUE
      [] spec = S_AM -> (t % 4) \in {1, 2}
      [] spec = S_PM -> (t % 4) \in {2, 3}
      [] OTHER -> FALSE

(***************************************************************************)
(* The helpers of the decision functions.                                  *)
(***************************************************************************)
\* mutant: the grace period ends one second early
within_grace_period_strict(deploy, grace_period, t) ==
    t - deploy.creationTimestamp < grace_period

within_grace_period(deploy, grace_period, t) ==
    LET delta == t - deploy.creationTimestamp
    IN  delta <= grace_period

is_stack_deployment(resource) ==
    resource.kind = "Deployment" /\ resource.stackOwner

ignore_resource(resource) ==
    \/ is_stack_deployment(resource)
    \/ Lower(Get(resource.annotations, EXCLUDE_ANNOTATION, PyStr(S_false)).s) # S_false

\* the annotation autoscale_resource reads into original_replicas
original_replicas_of(resource) ==
    resource.annotations[ORIGINAL_CRON_SUSPEND_ANNOTATION]

(***************************************************************************)
(* Mode selection: forced uptime, period based, or uptime/downtime spec.   *)
(* bound = FALSE says that the local is_uptime was never assigned, so that *)
(* the logger.debug call that reads it raises UnboundLocalError (raised).  *)
(***************************************************************************)
\* used: the locals upscale_period, downscale_period, uptime and downtime, once assigned
NoWindows == [upscale_period |-> <<>>, downscale_period |-> <<>>, uptime |-> <<>>, downtime |-> <<>>]

Mode(mode, ignore, bound, is_uptime) ==
    [mode |-> mode, ignore |-> ignore, bound |-> bound, is_uptime |-> is_uptime,
     raised |-> ~bound, used |-> NoWindows]

\* mutant: overlapping periods are taken for downtime
period_branch_overlap_downtime(t, uptime, downtime) ==
    CASE matches_time_spec(t, downtime) -> Mode("period", FALSE, TRUE, FALSE)
      [] matches_time_spec(t, uptime) -> Mode("period", FALSE, TRUE, TRUE)
      [] OTHER -> Mode("period", TRUE, FALSE, FALSE)

\* lines 80-91
period_branch(t, uptime, downtime) ==
    CASE matches_time_spec(t, uptime) /\ matches_time_spec(t, downtime) ->
            Mode("period", TRUE, FALSE, FALSE)
      [] matches_time_spec(t, uptime) -> Mode("period", FALSE, TRUE, TRUE)
      [] matches_time_spec(t, downtime) -> Mode("period", FALSE, TRUE, FALSE)
      [] OTHER -> Mode("period", TRUE, FALSE, FALSE)

\* mutant: the forced-uptime signal is dropped
forced_branch_without_signal(forced_uptime, exclude, original) ==
    exclude /\ Truthy(original)

\* line 75
forced_branch(forced_uptime, exclude, original) ==
    Truthy(forced_uptime) \/ (exclude /\ Truthy(original))

\* mutant: the uptime spec wins where both specs match
spec_branch_uptime_first(t, uptime, downtime) ==
    matches_time_spec(t, uptime)

\* line 95
spec_branch(t, uptime, downtime) ==
    matches_time_spec(t, uptime) /\ ~matches_time_spec(t, downtime)

\* mutant: the uptime and downtime specs of the namespace hide those of the resource
windows_used_namespace_first(annotations, is_forced, upscale_period, downscale_period, default_uptime, default_downtime) ==
    [upscale_period |-> Get(annotations, UPSCALE_PERIOD_ANNOTATION, upscale_period).s,
     downscale_period |-> Get(annotations, DOWNSCALE_PERIOD_ANNOTATION, downscale_period).s,
     uptime |-> IF is_forced THEN S_forced
                ELSE IF \/ Get(annotations, UPSCALE_PERIOD_ANNOTATION, upscale_period).s # S_never
                        \/ Get(annotations, DOWNSCALE_PERIOD_ANNOTATION, downscale_period).s # S_never
                THEN Get(annotations, UPSCALE_PERIOD_ANNOTATION, upscale_period).s
                ELSE default_uptime.s,
     downtime |-> IF is_forced THEN S_ignored
                  ELSE IF \/ Get(annotations, UPSCALE_PERIOD_ANNOTATION, upscale_period).s # S_never
                          \/ Get(annotations, DOWNSCALE_PERIOD_ANNOTATION, downscale_period).s # S_never
                  THEN Get(annotations, DOWNSCALE_PERIOD_ANNOTATION, downscale_period).s
                  ELSE default_downtime.s]

\* lines 73-94: the values of the locals upscale_period, downscale_period, uptime, downtime
windows_used(annotations, is_forced, upscale_period, downscale_period, default_uptime, default_downtime) ==
    [upscale_period |-> Get(annotations, UPSCALE_PERIOD_ANNOTATION, upscale_period).s,
     downscale_period |-> Get(annotations, DOWNSCALE_PERIOD_ANNOTATION, downscale_period).s,
     uptime |-> IF is_forced THEN S_forced
                ELSE IF \/ Get(annotations, UPSCALE_PERIOD_ANNOTATION, upscale_period).s # S_never
                        \/ Get(annotations, DOWNSCALE_PERIOD_ANNOTATION, downscale_period).s # S_never
                THEN Get(annotations, UPSCALE_PERIOD_ANNOTATION, upscale_period).s
                ELSE Get(annotations, UPTIME_ANNOTATION, default_uptime).s,
     downtime |-> IF is_forced THEN S_ignored
                  ELSE IF \/ Get(annotations, UPSCALE_PERIOD_ANNOTATION, upscale_period).s # S_never
                          \/ Get(annotations, DOWNSCALE_PERIOD_ANNOTATION, downscale_period).s # S_never
                  THEN Get(annotations, DOWNSCALE_PERIOD_ANNOTATION, downscale_period).s
                  ELSE Get(annotations, DOWNTIME_ANNOTATION, default_downtime).s]

\* lines 75-95, with the windows w at hand
mode_of(w, is_forced, t) ==
    [(IF is_forced
      THEN Mode("forced", FALSE, TRUE, TRUE)
      ELSE IF w.upscale_period # S_never \/ w.downscale_period # S_never
      THEN period_branch(t, w.uptime, w.downtime)
      ELSE Mode("spec", FALSE, TRUE, spec_branch(t, w.uptime, w.downtime)))
     EXCEPT !.used = w]

resolve_mode(annotations, exclude, original, upscale_period, downscale_period, default_uptime, default_downtime, forced_uptime, t) ==
    mode_of(windows_used(annotations, forced_branch(forced_uptime, exclude, original),
                         upscale_period, downscale_period, default_uptime, default_downtime),
            forced_branch(forced_uptime, exclude, original), t)

(***************************************************************************)
(* autoscale_resource: the replica-based decision.  The result records the *)
(* in-memory resource object after the call (obj), whether update() was    *)
(* reached (update_called) and the exception the try block caught, if any. *)
(***************************************************************************)
\* mutant: update() is called under --dry-run too
Result_ignoring_dry_run(outcome, raised, obj, update_needed, dry_run, m, target) ==
    [outcome |-> outcome, raised |-> raised, obj |-> obj,
     update_needed |-> update_needed, update_called |-> update_needed,
     mode |-> m.mode, ignore |-> m.ignore, is_uptime |-> m.is_uptime, target |-> target,
     used |-> m.used]

Result(outcome, raised, obj, update_needed, dry_run, m, target) ==
    [outcome |-> outcome, raised |-> raised, obj |-> obj,
     update_needed |-> update_needed, update_called |-> update_needed /\ ~dry_run,
     mode |-> m.mode, ignore |-> m.ignore, is_uptime |-> m.is_uptime, target |-> target,
     used |-> m.used]

NoMode == Mode("none", FALSE, TRUE, FALSE)

\* line 101, up to the conversion of the annotation
restore_candidate(m, replicas, downtime_replicas, original) ==
    ~m.ignore /\ m.is_uptime /\ replicas = downtime_replicas /\ Truthy(original)

\* line 108
downscale_condition(m, replicas, downtime_replicas) ==
    ~m.ignore /\ ~m.is_uptime /\ replicas > 0 /\ replicas > downtime_replicas

\* mutant: the restore leaves the original-replicas annotation in place
scale_up_keeping_annotation(resource, original_value) ==
    [resource EXCEPT !.replicas = original_value]

\* lines 105-106
scale_up(resource, original_value) ==
    [resource EXCEPT !.replicas = original_value,
                     !.annotations[ORIGINAL_REPLICAS_ANNOTATION] = PyNone]

\* line 109
target_replicas_of(resource, downtime_replicas) ==
    PyIntOf(Get(resource.annotations, DOWNTIME_REPLICAS_ANNOTATION, PyInt(downtime_replicas))).n

\* mutant: the replicas are reduced and no annotation is written
scale_down_without_annotation(resource, replicas, target_replicas) ==
    [resource EXCEPT !.replicas = target_replicas]

\* mutant: the annotation records the target instead of the replicas before
scale_down_recording_target(resource, replicas, target_replicas) ==
    [resource EXCEPT !.annotations[ORIGINAL_REPLICAS_ANNOTATION] = PyStr(StrOfInt(target_replicas)),
                     !.replicas = target_replicas]

\* lines 118-119
scale_down(resource, replicas, target_replicas) ==
    [resource EXCEPT !.annotations[ORIGINAL_REPLICAS_ANNOTATION] = PyStr(StrOfInt(replicas)),
                     !.replicas = target_replicas]

\* lines 99-125, with the mode m, the downtime target and int(original_replicas) at hand
autoscale_transition(resource, m, downtime_replicas, original_replicas, orig, dry_run, t, grace_period) ==
    IF m.raised
    THEN Result("failed", "UnboundLocalError", resource, FALSE, dry_run, m, downtime_replicas)
    ELSE IF restore_candidate(m, resource.replicas, downtime_replicas, original_replicas)
            /\ ~orig.ok
    THEN Result("failed", "ValueError", resource, FALSE, dry_run, m, downtime_replicas)
    ELSE IF restore_candidate(m, resource.replicas, downtime_replicas, original_replicas)
            /\ orig.n > 0
    THEN Result("scale_up", "", scale_up(resource, orig.n), TRUE, dry_run, m, downtime_replicas)
    ELSE IF downscale_condition(m, resource.replicas, downtime_replicas)
    THEN IF within_grace_period(resource, grace_period, t)
         THEN Result("deferred", "", resource, FALSE, dry_run, m, downtime_replicas)
         ELSE Result("scale_down", "",
                     scale_down(resource, resource.replicas,
                                target_replicas_of(resource, downtime_replicas)),
                     TRUE, dry_run, m, downtime_replicas)
    ELSE Result("none", "", resource, FALSE, dry_run, m, downtime_replicas)

\* lines 65-95, with exclude, original_replicas and int(downtime-replicas) at hand
autoscale_decide(resource, exclude, original_replicas, dr, upscale_period, downscale_period, default_uptime, default_downtime, forced_uptime, dry_run, t, grace_period) ==
    IF ~dr.ok
    THEN Result("failed", "ValueError", resource, FALSE, dry_run, NoMode, 0)
    ELSE IF exclude /\ ~Truthy(original_replicas)
    THEN Result("excluded", "", resource, FALSE, dry_run, NoMode, dr.n)
    ELSE autoscale_transition(resource,
             resolve_mode(resource.annotations, exclude, original_replicas, upscale_period,
                          downscale_period, default_uptime, default_downtime, forced_uptime, t),
             dr.n, original_replicas, PyIntOf(original_replicas), dry_run, t, grace_period)

autoscale_resource(resource, upscale_period, downscale_period, default_uptime, default_downtime, forced_uptime, dry_run, t, grace_period, downtime_replicas, namespace_excluded) ==
    autoscale_decide(resource,
        namespace_excluded \/ ignore_resource(resource),
        original_replicas_of(resource),
        PyIntOf(Get(resource.annotations, DOWNTIME_REPLICAS_ANNOTATION, downtime_replicas)),
        upscale_period, downscale_period, default_uptime, default_downtime, forced_uptime,
        dry_run, t, grace_period)

(***************************************************************************)
(* auto_suspend_cronjob: the suspend-based decision.                       *)
(***************************************************************************)
\* line 215
cron_restore_condition(m, status, downtime_status, original_status) ==
    /\ ~m.ignore /\ m.is_uptime /\ PyEq(status, downtime_status)
    /\ Truthy(original_status) /\ PyEq(original_status, PyBool(FALSE))

\* line 222
cron_downscale_condition(m, status, downtime_status) ==
    ~m.ignore /\ ~m.is_uptime /\ PyEq(status, PyBool(FALSE)) /\ ~PyEq(status, downtime_status)

\* lines 219-220
cron_resume(resource, original_status) ==
    [resource EXCEPT !.suspend = original_status,
                     !.annotations[ORIGINAL_CRON_SUSPEND_ANNOTATION] = PyNone]

\* lines 231-232
cron_suspend(resource, original_status, target_status) ==
    [resource EXCEPT !.annotations[ORIGINAL_CRON_SUSPEND_ANNOTATION] = original_status,
                     !.suspend = target_status]

\* lines 213-239, with the mode m at hand
cron_transition(resource, m, status, downtime_status, original_status, dry_run, t, grace_period) ==
    IF m.raised
    THEN Result("failed", "UnboundLocalError", resource, FALSE, dry_run, m, 0)
    ELSE IF cron_restore_condition(m, status, downtime_status, original_status)
    THEN Result("scale_up", "", cron_resume(resource, original_status), TRUE, dry_run, m, 0)
    ELSE IF cron_downscale_condition(m, status, downtime_status)
    THEN IF within_grace_period(resource, grace_period, t)
         THEN Result("deferred", "", resource, FALSE, dry_run, m, 0)
         ELSE Result("scale_down", "",
                     cron_suspend(resource, original_status,
                                  Get(resource.annotations, DOWNTIME_CRON_SUSPEND_ANNOTATION,
                                      DOWNTIME_CRON_SUSPEND)),
                     TRUE, dry_run, m, 0)
    ELSE Result("none", "", resource, FALSE, dry_run, m, 0)

\* lines 181-209, with exclude, original_status and downtime_status at hand
cron_decide(resource, exclude, original_status, downtime_status, upscale_period, downscale_period, default_uptime, default_downtime, forced_uptime, dry_run, t, grace_period) ==
    IF exclude /\ ~Truthy(original_status)
    THEN Result("excluded", "", resource, FALSE, dry_run, NoMode, 0)
    ELSE cron_transition(resource,
             resolve_mode(resource.annotations, exclude, original_status, upscale_period,
                          downscale_period, default_uptime, default_downtime, forced_uptime, t),
             resource.suspend, downtime_status, original_status, dry_run, t, grace_period)

auto_suspend_cronjob(resource, upscale_period, downscale_period, default_uptime, default_downtime, forced_uptime, dry_run, t, grace_period, namespace_excluded) ==
    cron_decide(resource,
        namespace_excluded \/ ignore_resource(resource),
        resource.annotations[ORIGINAL_CRON_SUSPEND_ANNOTATION],
        Get(resource.annotations, DOWNTIME_CRON_SUSPEND_ANNOTATION, DOWNTIME_CRON_SUSPEND),
        upscale_period, downscale_period, default_uptime, default_downtime, forced_uptime,
        dry_run, t, grace_period)

(***************************************************************************)
(* pods_force_uptime: the forced-uptime scan over the pods in scope.       *)
(***************************************************************************)
\* lines 33-39: the loop over the pods from the i-th on, left at the first hit
RECURSIVE scan_pods(_, _)
scan_pods(podlist, i) ==
    IF i > Len(podlist)
    THEN FALSE
    ELSE IF podlist[i].phase \in {"Succeeded", "Failed"}
    THEN scan_pods(podlist, i + 1)
    ELSE IF Lower(Get(podlist[i].annotations, FORCE_UPTIME_ANNOTATION, PyStr(<<>>)).s) = S_true
    THEN TRUE
    ELSE scan_pods(podlist, i + 1)

\* mutant: pods that have finished count as well
pods_force_uptime_counting_finished(podlist) ==
    \E i \in 1..Len(podlist) :
        Lower(Get(podlist[i].annotations, FORCE_UPTIME_ANNOTATION, PyStr(<<>>)).s) = S_true

pods_force_uptime(podlist) == scan_pods(podlist, 1)

(***************************************************************************)
(* The driver loops.  namespace_values is the block that overrides the     *)
(* process defaults with the annotations of the resource's namespace; its  *)
(* int() is outside any try block, so ok = FALSE is an exception that      *)
(* leaves autoscale_resources and scale.                                   *)
(***************************************************************************)
namespace_forced_uptime(ns, forced_uptime) ==
    Get(ns, FORCE_UPTIME_ANNOTATION, PyBool(forced_uptime))

namespace_values(ns, a, forced_uptime) ==
    LET dr == PyIntOf(Get(ns, DOWNTIME_REPLICAS_ANNOTATION, PyInt(a.downtime_replicas)))
    IN  [ok |-> dr.ok,
         excluded |-> Lower(Get(ns, EXCLUDE_ANNOTATION, PyStr(S_false)).s) # S_false,
         default_uptime |-> Get(ns, UPTIME_ANNOTATION, PyStr(a.default_uptime)),
         default_downtime |-> Get(ns, DOWNTIME_ANNOTATION, PyStr(a.default_downtime)),
         downtime_replicas |-> PyInt(dr.n),
         upscale_period |-> Get(ns, UPSCALE_PERIOD_ANNOTATION, PyStr(a.upscale_period)),
         downscale_period |-> Get(ns, DOWNSCALE_PERIOD_ANNOTATION, PyStr(a.downscale_period)),
         forced_uptime |-> namespace_forced_uptime(ns, forced_uptime)]

cron_namespace_values(ns, a, forced_uptime) ==
    [ok |-> TRUE,
     excluded |-> Lower(Get(ns, EXCLUDE_ANNOTATION, PyStr(S_false)).s) # S_false,
     default_uptime |-> Get(ns, UPTIME_ANNOTATION, PyStr(a.default_uptime)),
     default_downtime |-> Get(ns, DOWNTIME_ANNOTATION, PyStr(a.default_downtime)),
     downtime_replicas |-> PyNone,
     upscale_period |-> Get(ns, UPSCALE_PERIOD_ANNOTATION, PyStr(a.upscale_period)),
     downscale_period |-> Get(ns, DOWNSCALE_PERIOD_ANNOTATION, PyStr(a.downscale_period)),
     forced_uptime |-> namespace_forced_uptime(ns, forced_uptime)]

\* kind.objects(api, namespace=...): the resources of a kind, in the order of the listing
ListingOrder == <<"d1", "d2", "c1">>
OfKind(kind, name) == name \in DOMAIN resources /\ resources[name].kind = kind
list_objects(kind) == SelectSeq(ListingOrder, LAMBDA name : OfKind(kind, name))

\* resource.update(): the API server takes the object or rejects the request
\* (accepted = FALSE); it never takes a malformed spec
api_update(obj, accepted) ==
    /\ accepted
    /\ obj.replicas >= 0
    /\ obj.kind = "CronJob" => obj.suspend.t = "bool"

\* what follows the loop of a driver in scale()
after_loop(kind, a) ==
    IF kind = "Deployment" /\ "cronjobs" \in a.include_resources /\ list_objects("CronJob") # <<>>
    THEN [pc |-> "cronjobs", todo |-> list_objects("CronJob")]
    ELSE [pc |-> "idle", todo |-> <<>>]

NoCall == [name |-> "", kind |-> "", outcome |-> "", committed |-> FALSE]

\* history: one invocation of a decision function, its inputs and what came of it
Call(resource, nv, res, accepted, t, before) ==
    [name |-> resource.name, kind |-> resource.kind, pre |-> resource, conf |-> nv,
     res |-> res, outcome |-> res.outcome, accepted |-> accepted,
     committed |-> res.update_called /\ api_update(res.obj, accepted),
     at |-> t,
     before |-> [down |-> before.down, from |-> before.from, deferred |-> before.deferred,
                 rerun |-> before.settled_at = t, rejected |-> before.rejected]]

\* history: what the engine has done to a resource so far.  down/from: its last
\* committed mutation was a scale-down from that many replicas; settled_at: the time
\* of its last evaluation, when the mutation of that evaluation (if any) was
\* committed; deferred: an evaluation has deferred its scale-down within the grace
\* period.  A Call keeps the history before it, rerun saying that the resource was
\* evaluated and settled at the very time of the call already.  rejected: the last
\* evaluation called update() and the API server rejected it; what it had asked for
NoRejection == [on |-> FALSE, is_uptime |-> FALSE, replicas |-> 0, annotations |-> NoAnnotations]

NoHistory ==
    [down |-> FALSE, from |-> 0, settled_at |-> 0 - 1, deferred |-> FALSE,
     rejected |-> NoRejection]

record_history(h, res, pre, committed, t) ==
    [down |-> IF committed THEN res.outcome = "scale_down" ELSE h.down,
     from |-> IF committed
              THEN (IF res.outcome = "scale_down" THEN pre.replicas ELSE 0)
              ELSE h.from,
     settled_at |-> IF res.update_needed => committed THEN t ELSE 0 - 1,
     deferred |-> h.deferred \/ res.outcome = "deferred",
     rejected |-> IF res.update_called /\ ~committed
                  THEN [on |-> TRUE, is_uptime |-> res.is_uptime,
                        replicas |-> res.obj.replicas, annotations |-> res.obj.annotations]
                  ELSE NoRejection]

(***************************************************************************)
(* scale(): a reconciliation pass begins.  The clock has moved on, the     *)
(* forced-uptime signal is computed once, the first driver lists its kind. *)
(***************************************************************************)
Scale ==
    /\ pc \in {"start", "idle", "aborted"}
    /\ \E t \in {now, now + 1} :
        /\ t <= MaxNow
        /\ now' = t
    /\ forced' = pods_force_uptime(pods)
    /\ evaluated' = {}
    /\ IF "deployments" \in args.include_resources /\ list_objects("Deployment") # <<>>
       THEN pc' = "deployments" /\ todo' = list_objects("Deployment")
       ELSE pc' = after_loop("Deployment", args).pc /\ todo' = after_loop("Deployment", args).todo
    /\ UNCHANGED <<resources, namespaces, pods, args, last, hist>>

(***************************************************************************)
(* One iteration of the loop of autoscale_resources or                     *)
(* auto_suspend_cronjobs, once the namespace values nv are resolved: the   *)
(* decision function runs, update() is answered by the API server, and the *)
(* loop goes on to the next resource whatever happened.                    *)
(***************************************************************************)
Evaluate(resource, nv, res, accepted, next) ==
    /\ resources' = IF res.update_called /\ api_update(res.obj, accepted)
                    THEN [resources EXCEPT ![resource.name] = res.obj]
                    ELSE resources
    /\ evaluated' = evaluated \cup {resource.name}
    /\ last' = Call(resource, nv, res, accepted, now, hist[resource.name])
    /\ hist' = [hist EXCEPT ![resource.name] =
                   record_history(@, res, resource,
                                  res.update_called /\ api_update(res.obj, accepted), now)]
    /\ pc' = next.pc
    /\ todo' = next.todo

Skip(next) ==
    /\ pc' = next.pc
    /\ todo' = next.todo
    /\ UNCHANGED <<resources, evaluated, last, hist>>

\* an exception leaves the driver and scale()
Raise ==
    /\ pc' = "aborted"
    /\ todo' = <<>>
    /\ UNCHANGED <<resources, evaluated, last, hist>>

rest_of_loop(kind) ==
    IF Len(todo) = 1 THEN after_loop(kind, args) ELSE [pc |-> pc, todo |-> Tail(todo)]

AutoscaleResources ==
    /\ pc = "deployments"
    /\ todo # <<>>
    /\ \E resource \in {resources[Head(todo)]} :
        IF resource.namespace \in args.exclude_namespaces \/ resource.name \in args.exclude_deployments
        THEN Skip(rest_of_loop("Deployment"))
        ELSE \E nv \in {namespace_values(namespaces[resource.namespace], args, forced)} :
            IF ~nv.ok
            THEN Raise
            ELSE \E res \in {autoscale_resource(resource, nv.upscale_period, nv.downscale_period,
                                nv.default_uptime, nv.default_downtime, nv.forced_uptime,
                                args.dry_run, now, args.grace_period, nv.downtime_replicas,
                                nv.excluded)} :
                 \E accepted \in IF res.update_called THEN BOOLEAN ELSE {TRUE} :
                    Evaluate(resource, nv, res, accepted, rest_of_loop("Deployment"))
    /\ UNCHANGED <<namespaces, pods, args, now, forced>>

AutoSuspendCronjobs ==
    /\ pc = "cronjobs"
    /\ todo # <<>>
    /\ \E resource \in {resources[Head(todo)]} :
        IF resource.namespace \in args.exclude_namespaces \/ resource.name \in args.exclude_cronjobs
        THEN Skip(rest_of_loop("CronJob"))
        ELSE \E nv \in {cron_namespace_values(namespaces[resource.namespace], args, forced)} :
             \E res \in {auto_suspend_cronjob(resource, nv.upscale_period, nv.downscale_period,
                                nv.default_uptime, nv.default_downtime, nv.forced_uptime,
                                args.dry_run, now, args.grace_period, nv.excluded)} :
             \E accepted \in IF res.update_called THEN BOOLEAN ELSE {TRUE} :
                Evaluate(resource, nv, res, accepted, rest_of_loop("CronJob"))
    /\ UNCHANGED <<namespaces, pods, args, now, forced>>

Next == Scale \/ AutoscaleResources \/ AutoSuspendCronjobs

(***************************************************************************)
(* Initial states: a cluster as the API hands it out and the arguments of  *)
(* scale().  Annotation values are strings; a deployment has a replica     *)
(* count, a cron job a boolean suspend flag.                               *)
(***************************************************************************)
Deployment(name, ns, stackOwner, replicas, annotations) ==
    [kind |-> "Deployment", name |-> name, namespace |-> ns, stackOwner |-> stackOwner,
     creationTimestamp |-> 0, replicas |-> replicas, suspend |-> PyNone,
     annotations |-> annotations]

CronJob(name, ns, suspend, annotations) ==
    [kind |-> "CronJob", name |-> name, namespace |-> ns, stackOwner |-> FALSE,
     creationTimestamp |-> 0, replicas |-> 0, suspend |-> PyBool(suspend),
     annotations |-> annotations]

Pod(phase, annotations) == [phase |-> phase, annotations |-> annotations]

Args(windows, dry_run, grace_period, downtime_replicas) ==
    [upscale_period |-> windows[1], downscale_period |-> windows[2],
     default_uptime |-> windows[3], default_downtime |-> windows[4],
     include_resources |-> {"deployments", "cronjobs"},
     exclude_namespaces |-> {}, exclude_deployments |-> {}, exclude_cronjobs |-> {},
     dry_run |-> dry_run, grace_period |-> grace_period,
     downtime_replicas |-> downtime_replicas]

\* <<upscale_period, downscale_period, default_uptime, default_downtime>>
WindowChoices ==
    {<<S_never, S_never, S_always, S_never>>,
     <<S_never, S_never, S_AM, S_PM>>,
     <<S_never, S_never, S_PM, S_AM>>,
     <<S_AM, S_PM, S_always, S_never>>,
     <<S_PM, S_AM, S_always, S_never>>}

ArgsChoices(DryRun) ==
    {Args(w, d, g, r) : w \in WindowChoices, d \in DryRun, g \in {0, 1}, r \in {0, 1}}

ForcingPod == Pod("Running", [NoAnnotations EXCEPT ![FORCE_UPTIME_ANNOTATION] = PyStr(S_true)])
PodsChoices == {<<>>, <<ForcingPod>>}

Str1 == PyStr(<<"1">>)
Str2 == PyStr(<<"2">>)
StrX == PyStr(<<"x">>)
StrFalse == PyStr(<<"F", "a", "l", "s", "e">>)

\* the number of annotations a resource under study carries at most
MaxAnnotations == 2

AnnotationCount(annotations) == Cardinality({k \in AnnotationKeys : annotations[k] # PyNone})

\* the annotations of the deployment under study
ReplicaAnnotationChoices ==
    {a \in {[NoAnnotations EXCEPT ![EXCLUDE_ANNOTATION] = e,
                                  ![ORIGINAL_CRON_SUSPEND_ANNOTATION] = c,
                                  ![ORIGINAL_REPLICAS_ANNOTATION] = o,
                                  ![DOWNTIME_REPLICAS_ANNOTATION] = d] :
                e \in {PyNone, PyStr(S_true), StrFalse}, c \in {PyNone, Str1, StrX},
                o \in {PyNone, Str2}, d \in {PyNone, Str2, StrX}} :
        AnnotationCount(a) <= MaxAnnotations}

\* the annotations of the cron job under study
CronAnnotationChoices ==
    {NoAnnotations, [NoAnnotations EXCEPT ![ORIGINAL_CRON_SUSPEND_ANNOTATION] = StrFalse]}

PlainDeployment == Deployment("d1", "n1", FALSE, MaxReplicas, NoAnnotations)
PlainCronJob == CronJob("c1", "n1", FALSE, NoAnnotations)

Cluster(d, c) == [n \in {"d1", "c1"} |-> IF n = "d1" THEN d ELSE c]

\* a deployment under study beside a plain cron job, or the other way round
Clusters ==
    {Cluster(d, PlainCronJob) :
        d \in {Deployment("d1", "n1", so, r, a) :
                  so \in BOOLEAN, r \in 0..MaxReplicas, a \in ReplicaAnnotationChoices}}
    \cup
    {Cluster(PlainDeployment, c) :
        c \in {CronJob("c1", "n1", sp, a) : sp \in BOOLEAN, a \in CronAnnotationChoices}}

PlainNamespaces == [n \in {"n1"} |-> NoAnnotations]

InitWith(ArgsSet, ClusterSet, NamespacesSet, PodsSet) ==
    /\ args \in ArgsSet
    /\ resources \in ClusterSet
    /\ namespaces \in NamespacesSet
    /\ pods \in PodsSet
    /\ now = 0
    /\ pc = "start"
    /\ todo = <<>>
    /\ forced = FALSE
    /\ evaluated = {}
    /\ last = NoCall
    /\ hist = [n \in DOMAIN resources |-> NoHistory]

Init == InitWith(ArgsChoices({FALSE}), Clusters, {PlainNamespaces}, PodsChoices)

Spec == Init /\ [][Next]_vars

\* the same clusters under --dry-run
InitDryRun == InitWith(ArgsChoices({TRUE}), Clusters, {PlainNamespaces}, PodsChoices)

SpecDryRun == InitDryRun /\ [][Next]_vars

(***************************************************************************)
(* The driver under study: two deployments in two namespaces and a cron    *)
(* job, namespaces that carry an annotation, static exclusion by name.     *)
(***************************************************************************)
WithAnnotation(key, value) == [NoAnnotations EXCEPT ![key] = value]

NamespaceAnnotationChoices ==
    {NoAnnotations,
     WithAnnotation(EXCLUDE_ANNOTATION, PyStr(S_true)),
     WithAnnotation(DOWNTIME_REPLICAS_ANNOTATION, Str1),
     WithAnnotation(DOWNTIME_REPLICAS_ANNOTATION, StrX),
     WithAnnotation(FORCE_UPTIME_ANNOTATION, PyStr(S_true)),
     WithAnnotation(FORCE_UPTIME_ANNOTATION, PyStr(S_false)),
     WithAnnotation(UPTIME_ANNOTATION, PyStr(S_PM)),
     WithAnnotation(DOWNTIME_ANNOTATION, PyStr(S_AM)),
     WithAnnotation(UPSCALE_PERIOD_ANNOTATION, PyStr(S_PM)),
     WithAnnotation(DOWNSCALE_PERIOD_ANNOTATION, PyStr(S_AM))}

DriverNamespaces ==
    {[n \in {"n1", "n2"} |-> IF n = "n1" THEN a ELSE b] :
        a \in NamespaceAnnotationChoices,
        b \in {NoAnnotations, WithAnnotation(DOWNTIME_REPLICAS_ANNOTATION, StrX)}}

DriverClusters ==
    {[n \in {"d1", "d2", "c1"} |-> IF n = "d1" THEN d ELSE IF n = "d2" THEN e ELSE PlainCronJob] :
        d \in {Deployment("d1", "n1", FALSE, MaxReplicas, a) :
                  a \in {NoAnnotations,
                         WithAnnotation(DOWNTIME_REPLICAS_ANNOTATION, StrX),
                         WithAnnotation(ORIGINAL_REPLICAS_ANNOTATION, StrX),
                         WithAnnotation(ORIGINAL_CRON_SUSPEND_ANNOTATION, StrX)}}
             \cup {Deployment("d1", "n1", FALSE, 0,
                              WithAnnotation(ORIGINAL_CRON_SUSPEND_ANNOTATION, StrX))},
        e \in {Deployment("d2", "n2", FALSE, MaxReplicas, a) :
                  a \in {NoAnnotations, WithAnnotation(DOWNTIME_REPLICAS_ANNOTATION, StrX)}}}

DriverArgs ==
    {[Args(w, FALSE, 0, 0) EXCEPT !.exclude_deployments = x] :
        w \in {<<S_never, S_never, S_AM, S_PM>>, <<S_AM, S_PM, S_always, S_never>>,
               <<S_PM, S_AM, S_always, S_never>>},
        x \in {{}, {"d1"}}}

InitDriver == InitWith(DriverArgs, DriverClusters, DriverNamespaces, PodsChoices)

SpecDriver == InitDriver /\ [][Next]_vars

(***************************************************************************)
(* The pods under study: up to MaxPods pods of any phase, with or without  *)
(* a force-uptime annotation, beside a plain deployment and cron job.      *)
(***************************************************************************)
MaxPods == 2

StrTrueMixed == PyStr(<<"T", "r", "u", "e">>)

PodChoices ==
    {Pod(phase, [NoAnnotations EXCEPT ![FORCE_UPTIME_ANNOTATION] = v]) :
        phase \in {"Running", "Succeeded", "Failed"},
        v \in {PyNone, PyStr(S_true), StrTrueMixed, PyStr(S_false)}}

PodLists == UNION {[1..n -> PodChoices] : n \in 0..MaxPods}

PodsArgs == {Args(<<S_never, S_never, S_PM, S_AM>>, FALSE, 0, 0)}

InitPods ==
    InitWith(PodsArgs, {Cluster(PlainDeployment, PlainCronJob)}, {PlainNamespaces}, PodLists)

SpecPods == InitPods /\ [][Next]_vars

(***************************************************************************)
(* The overrides under study: a deployment and its namespace, each with    *)
(* any subset of the five override annotations, the value on the resource, *)
(* the value on the namespace and the process default all different.       *)
(***************************************************************************)
OverrideKeys ==
    <<UPSCALE_PERIOD_ANNOTATION, DOWNSCALE_PERIOD_ANNOTATION, UPTIME_ANNOTATION,
      DOWNTIME_ANNOTATION, DOWNTIME_REPLICAS_ANNOTATION>>

ResourceOverrides == <<PyStr(S_always), PyStr(S_always), PyStr(S_PM), PyStr(S_AM), Str2>>
NamespaceOverrides == <<PyStr(S_PM), PyStr(S_AM), PyStr(S_AM), PyStr(S_PM), Str1>>

\* the annotations that set the keys numbered in set to their value in values
Overrides(values, set) ==
    [k \in AnnotationKeys |->
        IF \E i \in set : OverrideKeys[i] = k
        THEN values[CHOOSE i \in set : OverrideKeys[i] = k]
        ELSE PyNone]

OverrideClusters ==
    {Cluster(Deployment("d1", "n1", FALSE, MaxReplicas, Overrides(ResourceOverrides, set)),
             PlainCronJob) : set \in SUBSET (1..5)}

OverrideNamespaces ==
    {[n \in {"n1"} |-> Overrides(NamespaceOverrides, set)] : set \in SUBSET (1..5)}

OverrideArgs == {Args(<<S_never, S_never, S_always, S_never>>, FALSE, 0, 0)}

InitOverride == InitWith(OverrideArgs, OverrideClusters, OverrideNamespaces, {<<>>})

SpecOverride == InitOverride /\ [][Next]_vars

(***************************************************************************)
(* The clusters the engine is the only writer of the original-replicas     *)
(* annotation in: no deployment starts with one.                           *)
(***************************************************************************)
ManagedClusters ==
    {c \in Clusters : c["d1"].annotations[ORIGINAL_REPLICAS_ANNOTATION] = PyNone}

InitManaged == InitWith(ArgsChoices({FALSE}), ManagedClusters, {PlainNamespaces}, PodsChoices)

SpecManaged == InitManaged /\ [][Next]_vars

(***************************************************************************)
(* Vocabulary of the properties, over the most recent invocation (last).   *)
(***************************************************************************)
Invoked(kind) == last.name # "" /\ last.kind = kind
ModeResolved == last.res.mode \in {"forced", "period", "spec"} /\ ~last.res.ignore
SaysUptime == ModeResolved /\ last.res.is_uptime
SaysDowntime == ModeResolved /\ ~last.res.is_uptime
Age == last.at - last.pre.creationTimestamp
\* the annotation the documentation calls original-replicas, as an integer
OriginalReplicas(resource) == PyIntOf(resource.annotations[ORIGINAL_REPLICAS_ANNOTATION])
Excluded == last.conf.excluded \/ ignore_resource(last.pre)
\* the windows in force for the resource of the last invocation
UpscalePeriod == Get(last.pre.annotations, UPSCALE_PERIOD_ANNOTATION, last.conf.upscale_period).s
DownscalePeriod == Get(last.pre.annotations, DOWNSCALE_PERIOD_ANNOTATION, last.conf.downscale_period).s
Uptime == Get(last.pre.annotations, UPTIME_ANNOTATION, last.conf.default_uptime).s
Downtime == Get(last.pre.annotations, DOWNTIME_ANNOTATION, last.conf.default_downtime).s
Untouched == ~last.res.update_needed /\ last.res.obj = last.pre /\ ~last.committed
DowntimeStatus ==
    Get(last.pre.annotations, DOWNTIME_CRON_SUSPEND_ANNOTATION, DOWNTIME_CRON_SUSPEND)
\* a resource the downtime rule applies to, the grace period aside
DowntimeEligible ==
    /\ last.name # ""
    /\ SaysDowntime
    /\ IF last.kind = "Deployment"
       THEN last.pre.replicas > 0 /\ last.pre.replicas > last.res.target
       ELSE PyEq(last.pre.suspend, PyBool(FALSE)) /\ ~PyEq(last.pre.suspend, DowntimeStatus)

(***************************************************************************)
(* C1.  Restore: a deployment whose replica count equals the effective     *)
(* downtime target, that carries an original-replicas annotation holding a *)
(* positive integer N, and for which the resolved mode says uptime, leaves *)
(* one evaluation with N replicas and without the annotation.              *)
(***************************************************************************)
C1_RestoreFromOriginalReplicas ==
    ( /\ Invoked("Deployment")
      /\ SaysUptime
      /\ last.pre.replicas = last.res.target
      /\ OriginalReplicas(last.pre).ok
      /\ OriginalReplicas(last.pre).n > 0 )
    => /\ last.res.obj.replicas = OriginalReplicas(last.pre).n
       /\ last.res.obj.annotations[ORIGINAL_REPLICAS_ANNOTATION] = PyNone

(***************************************************************************)
(* C2.  Round trip: a deployment the engine has scaled down from R         *)
(* replicas, and that nobody else touched, is back at R replicas without   *)
(* an original-replicas annotation after an evaluation in which uptime     *)
(* holds and whose update, if any, the API server accepts.                 *)
(***************************************************************************)
C2_RoundTrip ==
    ( /\ Invoked("Deployment")
      /\ last.before.down
      /\ SaysUptime
      /\ last.accepted )
    => /\ resources[last.name].replicas = last.before.from
       /\ resources[last.name].annotations[ORIGINAL_REPLICAS_ANNOTATION] = PyNone

(***************************************************************************)
(* C3.  Idempotence: when a deployment was evaluated and the mutation of   *)
(* that evaluation, if any, committed, an evaluation at the same time      *)
(* with the same configuration issues no update.                           *)
(***************************************************************************)
C3_Idempotent ==
    (Invoked("Deployment") /\ last.before.rerun) => ~last.res.update_needed

(***************************************************************************)
(* C4.  Scale-down: with the mode saying downtime, R > 0 replicas, R > T   *)
(* and an age beyond the grace period, the evaluation sets the replica     *)
(* count to T and the original-replicas annotation to the decimal string   *)
(* of R, and what it commits is that object; with R = 0 or R <= T there is *)
(* no scale-down.                                                          *)
(***************************************************************************)
C4_ScaleDown ==
    Invoked("Deployment") =>
        /\ ( /\ SaysDowntime
             /\ last.pre.replicas > 0
             /\ last.pre.replicas > last.res.target
             /\ Age > args.grace_period )
           => /\ last.outcome = "scale_down"
              /\ last.res.update_needed
              /\ last.res.obj.replicas = last.res.target
              /\ last.res.obj.annotations[ORIGINAL_REPLICAS_ANNOTATION].t = "str"
              /\ last.res.obj.annotations[ORIGINAL_REPLICAS_ANNOTATION].s = StrOfInt(last.pre.replicas)
              /\ OriginalReplicas(last.res.obj) = [ok |-> TRUE, n |-> last.pre.replicas]
              /\ last.committed => resources[last.name] = last.res.obj
        /\ (last.res.raised = "" /\ (last.pre.replicas = 0 \/ last.pre.replicas <= last.res.target))
           => /\ last.outcome # "scale_down"
              /\ last.res.obj.annotations[ORIGINAL_REPLICAS_ANNOTATION]
                    \in {PyNone, last.pre.annotations[ORIGINAL_REPLICAS_ANNOTATION]}

C4_Witness ==
    /\ Invoked("Deployment")
    /\ last.outcome = "scale_down"
    /\ last.committed
    /\ last.pre.replicas = 2
    /\ last.res.target = 1
    /\ resources[last.name].replicas = 1
    /\ resources[last.name].annotations[ORIGINAL_REPLICAS_ANNOTATION] = Str2

(***************************************************************************)
(* C5.  Grace period: a downtime-eligible resource, deployment or cron     *)
(* job, is deferred untouched while its age is at most the grace period    *)
(* and is scaled down (suspended) once its age is greater.                 *)
(***************************************************************************)
C5_GracePeriod ==
    DowntimeEligible =>
        /\ Age <= args.grace_period => (last.outcome = "deferred" /\ Untouched)
        /\ Age > args.grace_period => (last.outcome = "scale_down" /\ last.res.update_needed)

\* a cron job deferred earlier is suspended once it is old enough
C5_Witness ==
    /\ Invoked("CronJob")
    /\ DowntimeEligible
    /\ last.before.deferred
    /\ Age = args.grace_period + 1
    /\ last.outcome = "scale_down"
    /\ hist["d1"].deferred /\ hist["d1"].down

(***************************************************************************)
(* C6.  Exclusion stability: an excluded deployment without an             *)
(* original-replicas annotation is not mutated by an evaluation.           *)
(***************************************************************************)
C6_ExclusionStable ==
    ( /\ Invoked("Deployment")
      /\ Excluded
      /\ last.pre.annotations[ORIGINAL_REPLICAS_ANNOTATION] = PyNone )
    => Untouched

(***************************************************************************)
(* C7.  Overlap safety: in period-based mode (a period other than "never", *)
(* no forced uptime, resource not excluded), when the upscale and the      *)
(* downscale period both match now, the evaluation mutates nothing and     *)
(* issues no update, for deployments and cron jobs alike.                  *)
(***************************************************************************)
PeriodMode ==
    /\ last.name # ""
    /\ ~Truthy(last.conf.forced_uptime)
    /\ ~Excluded
    /\ (UpscalePeriod # S_never \/ DownscalePeriod # S_never)

C7_OverlapSafe ==
    ( /\ PeriodMode
      /\ last.res.raised # "ValueError"
      /\ matches_time_spec(last.at, UpscalePeriod)
      /\ matches_time_spec(last.at, DownscalePeriod) )
    => /\ Untouched
       /\ last.res.mode = "period"
       /\ resources[last.name] = last.pre

\* both kinds were evaluated in an overlap, the deployment with replicas to lose
C7_Witness ==
    /\ Invoked("CronJob")
    /\ PeriodMode
    /\ matches_time_spec(last.at, UpscalePeriod)
    /\ matches_time_spec(last.at, DownscalePeriod)
    /\ PyEq(last.pre.suspend, PyBool(FALSE))
    /\ Age > args.grace_period
    /\ resources["d1"].replicas = MaxReplicas
    /\ "d1" \in evaluated
    /\ ~ignore_resource(resources["d1"])

C10_DryRunFrame ==
    [][args.dry_run => /\ resources' = resources
                       /\ last'.name # "" => (~last'.res.update_called /\ ~last'.committed)]_vars

\* a scale-down and a suspension were both decided and neither was committed
C10_Witness ==
    /\ args.dry_run
    /\ Invoked("CronJob")
    /\ last.outcome = "scale_down"
    /\ last.res.update_needed
    /\ resources[last.name] = last.pre
    /\ hist["d1"].settled_at = 0 - 1
    /\ "d1" \in evaluated

(***************************************************************************)
(* C9.  Error isolation: a failure while resolving the configuration of,   *)
(* evaluating or committing one resource leaves the persisted state of     *)
(* that resource as it was, and a pass that has ended has evaluated every  *)
(* listed resource whose own configuration resolves (the resources the     *)
(* static exclusion sets drop aside).                                      *)
(***************************************************************************)
Listed(name) ==
    /\ resources[name].namespace \notin args.exclude_namespaces
    /\ IF resources[name].kind = "Deployment"
       THEN name \notin args.exclude_deployments /\ "deployments" \in args.include_resources
       ELSE name \notin args.exclude_cronjobs /\ "cronjobs" \in args.include_resources

Resolves(name) ==
    resources[name].kind = "Deployment"
        => namespace_values(namespaces[resources[name].namespace], args, forced).ok

C9_ErrorIsolation ==
    /\ (last.name # "" /\ (last.res.raised # "" \/ (last.res.update_called /\ ~last.committed)))
          => resources[last.name] = last.pre
    /\ pc \in {"idle", "aborted"}
          => \A name \in DOMAIN resources : (Listed(name) /\ Resolves(name)) => name \in evaluated

(***************************************************************************)
(* C11.  Suspend-based restore: a cron job whose suspend flag equals the   *)
(* configured downtime value, whose original-cron-status annotation        *)
(* records the state "not suspended", and for which the resolved mode says *)
(* uptime, leaves one evaluation not suspended and without the annotation. *)
(***************************************************************************)
\* an annotation value that records the suspend flag False
RecordsNotSuspended(v) ==
    \/ v = PyBool(FALSE)
    \/ v.t = "str" /\ Lower(v.s) = S_false

C11_CronRestore ==
    ( /\ Invoked("CronJob")
      /\ SaysUptime
      /\ PyEq(last.pre.suspend, DowntimeStatus)
      /\ RecordsNotSuspended(last.pre.annotations[ORIGINAL_CRON_SUSPEND_ANNOTATION]) )
    => /\ last.res.obj.suspend = PyBool(FALSE)
       /\ last.res.obj.annotations[ORIGINAL_CRON_SUSPEND_ANNOTATION] = PyNone

(***************************************************************************)
(* C12.  Excluded mid-downscale: an excluded deployment that carries an    *)
(* original-replicas annotation with a positive value N is evaluated in    *)
(* forced-uptime mode, and when its replica count equals the downtime      *)
(* target it is restored to N and the annotation is cleared.               *)
(***************************************************************************)
C12_ExcludedRestores ==
    ( /\ Invoked("Deployment")
      /\ Excluded
      /\ last.res.raised = ""
      /\ OriginalReplicas(last.pre).ok
      /\ OriginalReplicas(last.pre).n > 0 )
    => /\ last.res.mode = "forced"
       /\ last.pre.replicas = last.res.target
             => /\ last.res.obj.replicas = OriginalReplicas(last.pre).n
                /\ last.res.obj.annotations[ORIGINAL_REPLICAS_ANNOTATION] = PyNone

(***************************************************************************)
(* C13.  Suspend-based downscale: when a cron job is suspended by the      *)
(* engine and the update is committed, the persisted job carries an        *)
(* original-cron-status annotation that records the suspend flag it had    *)
(* before, not suspended.                                                  *)
(***************************************************************************)
C13_CronSnapshot ==
    ( /\ Invoked("CronJob")
      /\ last.outcome = "scale_down"
      /\ last.committed )
    => /\ PyEq(last.pre.suspend, PyBool(FALSE))
       /\ RecordsNotSuspended(resources[last.name].annotations[ORIGINAL_CRON_SUSPEND_ANNOTATION])

(***************************************************************************)
(* C14, as stated: in uptime/downtime-spec mode, when now matches both     *)
(* the uptime spec and the downtime spec, the resource is treated as in    *)
(* uptime and is not scaled down.                                          *)
(***************************************************************************)
SpecMode == last.name # "" /\ last.res.mode = "spec"

C14_UptimeWinsOverlap ==
    ( /\ SpecMode
      /\ matches_time_spec(last.at, Uptime)
      /\ matches_time_spec(last.at, Downtime) )
    => /\ last.res.is_uptime
       /\ last.outcome # "scale_down"

(***************************************************************************)
(* C14, amended: in uptime/downtime-spec mode uptime holds exactly when    *)
(* now matches the uptime spec and does not match the downtime spec; where *)
(* both match, the downtime spec wins, and a downtime-eligible resource    *)
(* past its grace period is scaled down (suspended).                       *)
(***************************************************************************)
C14_DowntimeWinsOverlap ==
    SpecMode =>
        /\ last.res.is_uptime
              <=> (matches_time_spec(last.at, Uptime) /\ ~matches_time_spec(last.at, Downtime))
        /\ ( /\ matches_time_spec(last.at, Uptime)
             /\ matches_time_spec(last.at, Downtime) )
           => /\ SaysDowntime
              /\ (DowntimeEligible /\ Age > args.grace_period)
                    => (last.outcome = "scale_down" /\ last.res.update_needed)

\* both specs match and a deployment with replicas to lose is scaled down
C14_Witness ==
    /\ Invoked("Deployment")
    /\ SpecMode
    /\ matches_time_spec(last.at, Uptime)
    /\ matches_time_spec(last.at, Downtime)
    /\ Uptime # Downtime
    /\ last.outcome = "scale_down"
    /\ last.committed
    /\ resources[last.name].replicas < last.pre.replicas

(***************************************************************************)
(* C15.  Ignore is not a failure: in period-based mode, when both periods  *)
(* match now or neither does, the evaluation ends normally, the resource   *)
(* untouched, without passing through the exception handler.               *)
(***************************************************************************)
C15_IgnoreIsNormal ==
    ( /\ PeriodMode
      /\ last.res.raised # "ValueError"
      /\ matches_time_spec(last.at, UpscalePeriod) <=> matches_time_spec(last.at, DownscalePeriod) )
    => /\ last.res.raised = ""
       /\ last.outcome # "failed"
       /\ Untouched

(***************************************************************************)
(* C20.  The namespace's force-uptime annotation is read as a boolean:     *)
(* with no pod forcing uptime, a resource that is not excluded is          *)
(* evaluated in forced-uptime mode only if the force-uptime annotation of  *)
(* its namespace is "true", whatever the case of its letters.              *)
(***************************************************************************)
NamespaceForceUptime == namespaces[last.pre.namespace][FORCE_UPTIME_ANNOTATION]

C20_NamespaceForceIsBoolean ==
    ( /\ last.name # ""
      /\ ~forced
      /\ ~Excluded
      /\ last.res.mode = "forced" )
    => /\ NamespaceForceUptime.t = "str"
       /\ Lower(NamespaceForceUptime.s) = S_true

(***************************************************************************)
(* C18.  The forced-uptime scan: the signal a pass computes is true        *)
(* exactly when some pod in scope has a phase other than Succeeded and     *)
(* Failed and a force-uptime annotation equal to "true" whatever the case  *)
(* of its letters, false with no such pod, and the scan changes neither    *)
(* the pods nor any resource or namespace.                                 *)
(***************************************************************************)
SomePodForcesUptime(podlist) ==
    \E i \in DOMAIN podlist :
        /\ podlist[i].phase \notin {"Succeeded", "Failed"}
        /\ podlist[i].annotations[FORCE_UPTIME_ANNOTATION].t = "str"
        /\ Lower(podlist[i].annotations[FORCE_UPTIME_ANNOTATION].s) = S_true

C18_ForcedUptimeScan ==
    [][(pc \in {"start", "idle", "aborted"})
          => (forced' = SomePodForcesUptime(pods) /\ pods' = pods
              /\ resources' = resources /\ namespaces' = namespaces)]_vars

\* a finished pod with the annotation is passed over, a running one with "True" counts
C18_Witness ==
    /\ pc = "deployments"
    /\ forced
    /\ Len(pods) = 2
    /\ pods[1].phase = "Succeeded"
    /\ pods[1].annotations[FORCE_UPTIME_ANNOTATION] = PyStr(S_true)
    /\ pods[2].phase = "Running"
    /\ pods[2].annotations[FORCE_UPTIME_ANNOTATION] = StrTrueMixed

(***************************************************************************)
(* C17.  Override precedence: for each of upscale-period,                  *)
(* downscale-period, uptime, downtime and downtime-replicas, the value an  *)
(* evaluation uses is the annotation of the resource if there is one,      *)
(* otherwise the annotation of its namespace if there is one, otherwise    *)
(* the process default.                                                    *)
(***************************************************************************)
Effective(key, default) ==
    IF last.pre.annotations[key] # PyNone
    THEN last.pre.annotations[key]
    ELSE IF namespaces[last.pre.namespace][key] # PyNone
    THEN namespaces[last.pre.namespace][key]
    ELSE default

C17_OverridePrecedence ==
    (last.name # "" /\ last.res.mode # "none") =>
        /\ last.res.used.upscale_period
              = Effective(UPSCALE_PERIOD_ANNOTATION, PyStr(args.upscale_period)).s
        /\ last.res.used.downscale_period
              = Effective(DOWNSCALE_PERIOD_ANNOTATION, PyStr(args.downscale_period)).s
        /\ last.res.mode = "period"
              => /\ last.res.used.uptime = last.res.used.upscale_period
                 /\ last.res.used.downtime = last.res.used.downscale_period
        /\ last.res.mode = "spec"
              => /\ last.res.used.uptime
                       = Effective(UPTIME_ANNOTATION, PyStr(args.default_uptime)).s
                 /\ last.res.used.downtime
                       = Effective(DOWNTIME_ANNOTATION, PyStr(args.default_downtime)).s
        /\ last.kind = "Deployment"
              => last.res.target
                    = PyIntOf(Effective(DOWNTIME_REPLICAS_ANNOTATION,
                                        PyInt(args.downtime_replicas))).n

\* the uptime spec of the resource beside the downtime spec and the downtime
\* replicas of the namespace, each hiding the process default
C17_Witness ==
    /\ Invoked("Deployment")
    /\ last.res.mode = "spec"
    /\ last.pre.annotations[UPTIME_ANNOTATION] = PyStr(S_PM)
    /\ namespaces["n1"][UPTIME_ANNOTATION] = PyStr(S_AM)
    /\ last.pre.annotations[DOWNTIME_ANNOTATION] = PyNone
    /\ namespaces["n1"][DOWNTIME_ANNOTATION] = PyStr(S_PM)
    /\ last.pre.annotations[DOWNTIME_REPLICAS_ANNOTATION] = PyNone
    /\ namespaces["n1"][DOWNTIME_REPLICAS_ANNOTATION] = Str1
    /\ last.res.used.uptime = S_PM
    /\ last.res.used.downtime = S_PM
    /\ last.outcome = "scale_down"
    /\ last.committed
    /\ resources["d1"].replicas = 1

(***************************************************************************)
(* C16.  Downscaled-state invariant: with no original-replicas annotation  *)
(* at the start and the engine the only writer, a deployment carries the   *)
(* annotation exactly when the last mutation the engine committed on it    *)
(* is a scale-down, and the annotation then holds the replica count the    *)
(* scale-down started from.                                                *)
(***************************************************************************)
C16_DownscaledState ==
    \A name \in DOMAIN resources :
        resources[name].kind = "Deployment" =>
            /\ resources[name].annotations[ORIGINAL_REPLICAS_ANNOTATION] # PyNone
                  <=> hist[name].down
            /\ hist[name].down
                  => resources[name].annotations[ORIGINAL_REPLICAS_ANNOTATION]
                        = PyStr(StrOfInt(hist[name].from))

\* a deployment the engine had scaled down is restored and the annotation is gone
C16_Witness ==
    /\ Invoked("Deployment")
    /\ last.before.down
    /\ last.outcome = "scale_up"
    /\ last.committed
    /\ ~hist[last.name].down
    /\ resources[last.name].annotations[ORIGINAL_REPLICAS_ANNOTATION] = PyNone
    /\ resources[last.name].replicas > 0

(***************************************************************************)
(* C19, as stated: a rejected update leaves the persisted deployment as it *)
(* was; the next evaluation under the same mode computes the same mutation *)
(* from the persisted state, and once an update is accepted the persisted  *)
(* replica count and annotations are those of a pass without failure; no   *)
(* committed update reduces the replicas without writing the               *)
(* original-replicas annotation in the same commit.                        *)
(***************************************************************************)
\* the evaluation before this one was rejected, and the mode has not changed since
Retried ==
    /\ Invoked("Deployment")
    /\ last.before.rejected.on
    /\ ModeResolved
    /\ last.res.raised = ""
    /\ last.res.is_uptime = last.before.rejected.is_uptime

SelfHeals ==
    /\ (Invoked("Deployment") /\ last.res.update_called /\ ~last.committed)
          => resources[last.name] = last.pre
    /\ Retried
          => /\ last.res.update_needed
             /\ last.res.obj.replicas = last.before.rejected.replicas
             /\ last.res.obj.annotations = last.before.rejected.annotations
             /\ last.committed => resources[last.name] = last.res.obj

====
